---- MODULE Spec2Model ----
(***************************************************************************)
(* The bot execution and coordination engine of ibots:                     *)
(*   - server.py  Waiter (poll / wait) and start._run_bot, the worker that *)
(*                constructs and runs one bot;                             *)
(*   - base.py    AbstractBot.api_wait, the suspend/resume loop with its   *)
(*                stop and interact flags, and AbstractBasicBot's state    *)
(*                file (__init__, save_state).                             *)
(* Threads are modelled by a program counter each; one action is one       *)
(* stretch of a thread's code between two accesses to shared data.         *)
(***************************************************************************)
EXTENDS Integers, FiniteSets, Sequences, TLC

\* ------------------------------------------------------------------ bounds
MaxGen == 2      \* wait signals (Event objects) the poll task may create after the first
MaxVal == 2      \* distinct values a state key may take
MaxResp == 1     \* distinct non-empty poll responses
MaxLive == 2     \* worker threads launched for one name and not ended
MaxLen == 2      \* symbols of a raw id

\* ------------------------------------------------------------- constants
Config == {"hello", "test"}              \* the configured bot names
NoEvent == -1                            \* Waiter has no _event attribute yet
None == 0                                \* timeout=None / event_last=None are falsy
NoFile == [indent |-> -1, obj |-> {}]    \* os.path.exists(_basic_store) is false
Timeouts == {None, 1}                    \* api_wait(): without / with a positive timeout
Responses == 0 .. MaxResp                \* response.text; 0 is the empty text ''
NoResponse == -1                         \* Waiter.poll has made no request yet
StateSpace == {{}} \cup {{<<"post_ibid", v>>} : v \in 1 .. MaxVal}

VARIABLES
    start_names,    \* start(): the names whose worker thread is launched
    running,        \* start(): running[name]
    live,           \* worker threads of the name that are launched and have not ended
    mainPc,         \* position of the thread that called start()
    id,             \* bot.id is an account id (the login gave one)
    bots,           \* start(): bots[name] is a constructed bot (TRUE) or None (FALSE)
    _stop,          \* AbstractBot._stop of bots[name]
    _interact,      \* AbstractBot._interact of bots[name]
    pc,             \* position of the worker thread of each name
    exc,            \* the exception that left bot construction or run, if any
    hooked,         \* stop_hook has run in this worker
    state,          \* AbstractBasicBot.state
    file,           \* content of the file _basic_store
    _state_string,  \* AbstractBasicBot._state_string
    saves,          \* save_state calls since the last mutation or construction
    wrote,          \* the last save_state call wrote the file
    _event,         \* Waiter._event: the current wait signal
    set_events,     \* the Event objects whose flag is set
    latest,         \* Waiter.poll: latest
    response,       \* Waiter.poll: response.text of the last request
    pollPc,         \* position of the poll thread
    ev,             \* api_wait: the local variable event
    first,          \* api_wait: the signal captured by the first wait slice
    seen,           \* api_wait: wait slices of this call that returned True
    missed,         \* api_wait: the captured signal was triggered between two slices
    tmo,            \* api_wait: the timeout argument
    embedded,       \* api_wait: IPython.embed() has run in this call
    stopPc,         \* position of the stop control call
    target_set,     \* stop: target_set
    posts,          \* posts the remote endpoint has created for the hello bot
    call            \* the last call of a library function: its arguments and outcome

vars == <<start_names, running, bots, live, mainPc, id, _stop, _interact, pc, exc, hooked, state,
          file, _state_string, saves, wrote, _event, set_events, latest,
          response, pollPc, ev, first, seen, missed, tmo, embedded, stopPc,
          target_set, posts, call>>

libVars == <<posts, call>>
ctlVars == <<start_names, running, bots, live, mainPc, id, libVars>>
flagVars == <<_stop, _interact>>
storeVars == <<state, file, _state_string, saves, wrote>>
pollVars == <<_event, set_events, latest, response, pollPc>>
waitVars == <<ev, first, seen, missed, tmo, embedded>>
stopVars == <<stopPc, target_set>>
engineVars == <<start_names, running, bots, live, mainPc, id, flagVars, pc, exc,
                hooked, storeVars, pollVars, waitVars, stopVars>>

\* ------------------------------------------------------------------ json
\* json.dumps(obj, indent=indent): the text depends on the indent except for
\* the empty mapping, which is '{}' with any indent.
Dumps(obj, indent) == [indent |-> IF obj = {} THEN 0 ELSE indent, obj |-> obj]

\* json.load / json.loads
Loads(text) == text.obj

\* ---------------------------------------------------------------- Waiter
\* Waiter.wait as it would be if it always took the current signal.
WaitEventCurrent(event_last) == _event

\* Waiter.wait line 38: event = event_last if event_last else self._event
\* (an Event object is truthy; None is not).
WaitEvent(event_last) == IF event_last # NoEvent THEN event_last ELSE _event

\* Event.wait as it would be if only the Waiter's current signal could wake.
EventWaitCurrent(event) == event = _event /\ event \in set_events

\* threading.Event.wait(timeout): True iff the flag is set when the wait ends.
EventWait(event) == event \in set_events

\* Waiter.poll line 25 (and the latest = '' of line 26)
PollInit ==
    /\ mainPc # "exit"
    /\ pollPc = "init"
    /\ _event' = 0
    /\ latest' = 0
    /\ pollPc' = "get"
    /\ UNCHANGED <<set_events, response>>
    /\ UNCHANGED <<ctlVars, flagVars, pc, exc, hooked, storeVars, waitVars, stopVars>>

\* Waiter.poll lines 29-31, 35: one request; an unchanged response sleeps and
\* polls again, a changed one goes on to trigger the signal.
PollGet(text) ==
    /\ mainPc # "exit"
    /\ pollPc = "get"
    /\ text # latest => _event < MaxGen
    /\ response' = text
    /\ pollPc' = IF text # latest THEN "set" ELSE "get"
    /\ UNCHANGED <<_event, set_events, latest>>
    /\ UNCHANGED <<ctlVars, flagVars, pc, exc, hooked, storeVars, waitVars, stopVars>>

\* Waiter.poll line 32: self._event.set()
PollSet ==
    /\ mainPc # "exit"
    /\ pollPc = "set"
    /\ set_events' = set_events \cup {_event}
    /\ pollPc' = "replace"
    /\ missed' = [b \in Config |-> missed[b] \/ (pc[b] = "loop" /\ ev[b] = _event)]
    /\ UNCHANGED <<_event, latest, response>>
    /\ UNCHANGED <<ctlVars, flagVars, pc, exc, hooked, storeVars, ev, first, seen, tmo, embedded,
                   stopVars>>

\* Waiter.poll lines 33-35: self._event = Event(); latest = response.text
PollReplace ==
    /\ mainPc # "exit"
    /\ pollPc = "replace"
    /\ _event' = _event + 1
    /\ latest' = response
    /\ pollPc' = "get"
    /\ UNCHANGED <<set_events, response>>
    /\ UNCHANGED <<ctlVars, flagVars, pc, exc, hooked, storeVars, waitVars, stopVars>>

\* ------------------------------------------------------- AbstractBasicBot
\* AbstractBasicBot.__init__ lines 301-305: self.state
InitState(f) == IF f # NoFile THEN Loads(f) ELSE {}

\* __init__ as it would be if it created no file.
InitFileKeep(f) == f

\* AbstractBasicBot.__init__ lines 304-307: a missing file is created with
\* json.dump(self.state, fd, indent=2); an existing one is left as it is.
InitFile(f) == IF f # NoFile THEN f ELSE Dumps({}, 2)

\* AbstractBasicBot.__init__ line 308
InitStateString(f) == Dumps(InitState(f), 2)

\* save_state lines 337-338: state_string = json.dumps(self.state), compared
\* with self._state_string.
SaveChanged(st, ss) == Dumps(st, None) # ss

\* save_state line 339 assigns self._state_strin, a new attribute:
\* self._state_string keeps its value.
SaveStateString(st, ss) == ss

\* save_state lines 340-341: fd.write(self._state_string)
SaveFile(f, st, ss) ==
    IF SaveChanged(st, ss) THEN SaveStateString(st, ss) ELSE f

\* AbstractBot.stop_hook lines 72-77: pass. It leaves the state file alone.
StopHook(f, st, ss) == f

\* ---------------------------------------------------------------- handles
\* A text is the sequence of its symbols: the delimiter ":" and chunks that
\* hold no delimiter. A value is its Python type together with str(value).
Sentinel == "__bid__"
Symbols == {Sentinel, "7", ":"}
\* The closed set of entity types of the specification.
EntityTypes ==
    {"user", "person", "nonprofit", "bot", "donation", "transaction", "news",
     "event", "post", "comment"}

TextsUpTo(n) == UNION {[1 .. k -> Symbols] : k \in 0 .. n}
StrVal(text) == [type |-> "str", text |-> text]
NoneVal == [type |-> "NoneType", text |-> <<"None">>]

\* The raw ids a handle is made of: non-empty texts of "7" and ":".
RawIds == {r \in TextsUpTo(MaxLen) : r # <<>> /\ \A i \in 1 .. Len(r) : r[i] # Sentinel}

\* Anything a caller may pass where a handle is expected.
Values == {StrVal(t) : t \in TextsUpTo(MaxLen + 3)} \cup {NoneVal}

\* str.split(':')
RECURSIVE Split(_)
Split(text) ==
    IF \A i \in 1 .. Len(text) : text[i] # ":"
    THEN <<text>>
    ELSE LET i == CHOOSE j \in 1 .. Len(text) :
                      text[j] = ":" /\ \A k \in 1 .. j - 1 : text[k] # ":"
         IN  <<SubSeq(text, 1, i - 1)>> \o Split(SubSeq(text, i + 1, Len(text)))

\* _make_bid lines 314-316: '__bid__:{}:{}'.format(id, type)
_make_bid(id_, type_) ==
    StrVal(<<Sentinel, ":">> \o id_.text \o <<":">> \o type_.text)

\* _is_bid lines 318-321
_is_bid(bid) ==
    /\ bid.type = "str"
    /\ Len(Split(bid.text)) = 3
    /\ Split(bid.text)[1] = <<Sentinel>>

\* _parse_bid lines 323-329: the assert, then the second and third part.
_parse_bid(bid) ==
    IF _is_bid(bid)
    THEN [raised |-> "none", id |-> Split(bid.text)[2], type |-> Split(bid.text)[3]]
    ELSE [raised |-> "AssertionError", id |-> <<>>, type |-> <<>>]

\* ------------------------------------------------------------- operations
\* What the remote endpoint does with one request: it answers with data, it
\* answers with GraphQL errors, or it cannot be reached.
Answers == {"data", "errors", "down"}

\* api_call lines 93-96: self._client.execute(...) returns the data of the
\* answer, a mapping from the operation's fields (given here by its keys),
\* and raises when the answer holds errors or the request fails.
api_call(answer) ==
    IF answer = "data"
    THEN [raised |-> "none", keys |-> {"data"}]
    ELSE [raised |-> "Exception", keys |-> {}]

\* The operations that take one handle from the caller.
LikeOps == {"create_like", "delete_like", "create_follow", "delete_follow"}
TargetOps == {"_parse_bid", "_query_single"} \cup LikeOps

\* The variables={...} display of an operation, evaluated item by item.
\* delete_follow (lines 1110-1111) starts with self.id and target.id, and
\* a str or None target has no attribute id.
OpVariables(fn, target) ==
    IF fn = "delete_follow" THEN "AttributeError" ELSE _parse_bid(target).raised

\* _query_single lines 1141-1149 and the like/follow operations, lines
\* 1038-1114: the variables, then api_call, then for a like/follow
\* operation 'errors' not in the result.
TargetOp(fn, target, answer) ==
    IF OpVariables(fn, target) # "none"
    THEN [raised |-> OpVariables(fn, target), sent |-> FALSE, ret |-> FALSE]
    ELSE IF fn = "_parse_bid"
    THEN [raised |-> "none", sent |-> FALSE, ret |-> TRUE]
    ELSE IF api_call(answer).raised # "none"
    THEN [raised |-> api_call(answer).raised, sent |-> TRUE, ret |-> FALSE]
    ELSE [raised |-> "none", sent |-> TRUE, ret |-> "errors" \notin api_call(answer).keys]

\* A mapping with one key around the value inner, and str() of it.
DictVal(inner) ==
    [type |-> "dict", text |-> <<"{'k'", ":">> \o inner.text \o <<"}">>, first |-> inner]

\* The result of a create mutation: the scalar under n levels of mappings.
RECURSIVE Nested(_, _)
Nested(scalar, n) == IF n = 0 THEN scalar ELSE DictVal(Nested(scalar, n - 1))

\* utils.first_item lines 30-32: the recursive call passes no depth, so it
\* runs with depth=1.
RECURSIVE first_item(_, _)
first_item(x, depth) ==
    IF depth = 1 THEN x.first ELSE first_item(x.first, 1)

\* The create operations that return a handle, and its entity type.
CreateOps == {"create_post", "create_donation", "create_transaction", "create_comment"}
CreateType(fn) ==
    CASE fn = "create_post" -> "post"
      [] fn = "create_donation" -> "donation"
      [] fn = "create_transaction" -> "transaction"
      [] fn = "create_comment" -> "comment"

\* create_post lines 912-926 and its three siblings:
\* _make_bid(first_item(api_call(...), depth=3), type)
CreateOp(fn, raw, answer) ==
    IF api_call(answer).raised # "none"
    THEN [raised |-> api_call(answer).raised, ret |-> NoneVal]
    ELSE [raised |-> "none",
          ret |-> _make_bid(first_item(Nested(StrVal(raw), 3), 3),
                            StrVal(<<CreateType(fn)>>))]

\* The parameters query_user_list documents (lines 358-396), and the names
\* a caller may pass.
Declared == {"search", "followed_by", "followed_of", "like_for", "rsvp_for", "order_by"}
VarNames == Declared \cup {"bogus"}

\* utils.mixed_case lines 26-27
mixed_case(x) ==
    CASE x = "followed_by" -> "followedBy"
      [] x = "followed_of" -> "followedOf"
      [] x = "like_for" -> "likeFor"
      [] x = "rsvp_for" -> "rsvpFor"
      [] x = "order_by" -> "orderBy"
      [] OTHER -> x

\* _query_list lines 1127-1139: every variable the caller gave is renamed
\* and handed to api_call; no name is checked.
QueryList(names, answer) ==
    [raised |-> api_call(answer).raised,
     sent |-> TRUE,
     variables |-> {mixed_case(k) : k \in names}]

\* _status lines 129-136: the query text is built with
\* '... "{id}" ...'.format(self.id), a named field with no keyword
\* argument to fill it.
FormatFields == {"id"}
FormatKeywords == {}

\* The fields of person the query asks for (lines 132-133) and the fields
\* the status lines read from the result (lines 139-143).
StatusAsked == {"id", "name"}
StatusUsed == {"username", "name", "balance"}

\* str.format
Format(fields, keywords) ==
    IF fields \subseteq keywords THEN "none" ELSE "KeyError"

\* AbstractBot._status lines 120-150: whatever is raised inside the try,
\* by str.format, by the transport or by a missing key of the result, ends
\* in the disconnected line.
_status(answer) ==
    IF \/ Format(FormatFields, FormatKeywords) # "none"
       \/ api_call(answer).raised # "none"
       \/ ~(StatusUsed \subseteq StatusAsked)
    THEN {"API Connection: disconnected"}
    ELSE {"API Connection: connected", "Logged in as", "Balance"}

\* ------------------------------------------------------------------ nodes
\* The fixed order of _entry_type, lines 177-184.
EntryOrder == <<"donation", "transaction", "news", "event", "post", "comment">>
EntryFields == {EntryOrder[i] : i \in 1 .. Len(EntryOrder)}

\* node['person'], here and in node['user']: null, or a person with its isBot.
Persons == {"null", "human", "bot"}

\* A node of an answer: its person, its own isBot, its entry fields that are
\* not null, the person of its user and the entry fields of its parent that
\* are not null.
Nodes ==
    [person : Persons, isBot : BOOLEAN, entries : SUBSET EntryFields,
     user : Persons, parent : SUBSET {"donation", "post", "comment"}]

\* _user_type as it would be if it answered with the person field as it is.
UserTypeField(person) == person

\* _user_type lines 169-173
_user_type(person) ==
    IF person # "null"
    THEN IF person = "bot" THEN "bot" ELSE "human"
    ELSE "nonprofit"

\* _entry_type as it would be if it took the last field that is not null.
EntryTypeLast(entries) ==
    IF entries = {}
    THEN "IndexError"
    ELSE EntryOrder[CHOOSE i \in 1 .. Len(EntryOrder) :
                        /\ EntryOrder[i] \in entries
                        /\ \A j \in i + 1 .. Len(EntryOrder) : EntryOrder[j] \notin entries]

\* _entry_type lines 175-186: the fields of the order that are not null, and
\* of these the first; [][0] raises IndexError.
_entry_type(entries) ==
    IF entries = {}
    THEN "IndexError"
    ELSE EntryOrder[CHOOSE i \in 1 .. Len(EntryOrder) :
                        /\ EntryOrder[i] \in entries
                        /\ \A j \in 1 .. i - 1 : EntryOrder[j] \notin entries]

\* The declared types, the keys of BID_CONF.
DeclaredTypes ==
    {"user", "nonprofit", "person", "donation", "transaction", "news", "event",
     "post", "comment"}

\* BID_CONF lines 200-291: the handle descriptors of a declared type for a
\* node, each with its name and its entity type.
BID_CONF(t, node) ==
    CASE t = "user" -> {<<"bid", _user_type(node.person)>>}
      [] t = "nonprofit" -> {<<"bid", "nonprofit">>}
      [] t = "person" -> {<<"bid", IF node.isBot THEN "bot" ELSE "human">>}
      [] t = "donation" -> {<<"bid", "donation">>, <<"user", _user_type(node.person)>>,
                            <<"target", "nonprofit">>}
      [] t = "transaction" -> {<<"bid", "transaction">>, <<"user", _user_type(node.person)>>,
                               <<"target", _user_type(node.person)>>}
      [] t = "news" -> {<<"bid", "news">>, <<"user", "nonprofit">>}
      [] t = "event" -> {<<"bid", "event">>, <<"user", "nonprofit">>}
      [] t = "post" -> {<<"bid", "post">>, <<"user", _user_type(node.user)>>}
      [] t = "comment" -> {<<"bid", "post">>, <<"user", _user_type(node.user)>>,
                           <<"parent", _entry_type(node.parent)>>}

\* node.items(): the keys of the node with the Python type of each value.
Items(node) ==
    {<<"id", "str">>, <<"isBot", "bool">>, <<"user", "dict">>, <<"parent", "dict">>,
     <<"person", IF node.person = "null" THEN "NoneType" ELSE "dict">>}
        \cup {<<f, IF f \in node.entries THEN "dict" ELSE "NoneType">> : f \in EntryFields}

\* utils.snake_case lines 22-23
snake_case(x) ==
    CASE x = "isBot" -> "is_bot"
      [] x = "HelloBot" -> "hello_bot"
      [] x = "TestBot" -> "test_bot"
      [] OTHER -> x

\* ------------------------------------------------------------ state file
\* config[x]['class'] of start() lines 68-73: the class of each configured
\* bot, which several names may share.
ClassNames == {"HelloBot", "TestBot"}

\* The directory argument of AbstractBot.__init__ (line 43). The init_args
\* of start() lines 116-121 hold no directory, so it is the one the class
\* hands to AbstractBot.__init__ itself.
Directories == {"bots", "bots/hello"}

\* AbstractBasicBot.__init__ lines 296-300: the path is made of the
\* directory and the class name; the bot's name is no part of it.
_basic_store(directory, cls) == <<directory, "basic_state_", snake_case(cls), ".json">>

\* The workers that open the path for writing: each bot whose _basic_store
\* it is, in __init__ (line 306) and in save_state (line 340). No other code
\* opens a state file.
Writers(path, stores) == {b \in Config : stores[b] = path}

\* _clean_result as it would be if it copied every field of the node.
CleanResultAll(t, node) ==
    IF \E d \in BID_CONF(t, node) : d[2] = "IndexError"
    THEN [raised |-> "IndexError", items |-> {}]
    ELSE [raised |-> "none",
          items |-> {<<d[1], "bid", d[2]>> : d \in BID_CONF(t, node)} \cup
                    {<<snake_case(kv[1]), kv[2], "">> : kv \in Items(node)}]

\* _clean_result lines 1116-1125: a handle for each descriptor, then the
\* fields of the node whose value is no dict and whose key is neither 'ids'
\* nor the name of a descriptor. An item is its key, the type of its value
\* and, for a handle, the entity type.
_clean_result(t, node) ==
    IF \E d \in BID_CONF(t, node) : d[2] = "IndexError"
    THEN [raised |-> "IndexError", items |-> {}]
    ELSE [raised |-> "none",
          items |-> {<<d[1], "bid", d[2]>> : d \in BID_CONF(t, node)} \cup
                    {<<snake_case(kv[1]), kv[2], "">> :
                        kv \in {x \in Items(node) :
                                  /\ x[2] # "dict"
                                  /\ x[1] \notin {"ids"} \cup {d[1] : d \in BID_CONF(t, node)}}}]

\* ------------------------------------------------------------ api_wait
\* The loop of api_wait as it would be if a timed-out slice ended it.
WhileCondSpurious(result, timeout) ==
    IF result \/ timeout = None THEN "exit" ELSE "raise"

\* api_wait line 109: while not result and (not timeout or
\* time.now() - start < timeout). The module time has no attribute now, so
\* the second operand raises AttributeError when it is evaluated.
WhileCond(result, timeout) ==
    IF result THEN "exit"
    ELSE IF timeout = None THEN "enter"
    ELSE "raise"

\* -------------------------------------------------------------- _run_bot
\* The names the module base defines among those _run_bot's except clauses
\* look up (base.py lines 18-19).
BaseDefines == {"StopBotException"}

\* The except clauses as they would be if every exception were retried.
CatchRetry(e) == "continue"

\* _run_bot lines 90-105: the except clauses are matched in order, and each
\* clause's expression is evaluated when it is reached. A name base does not
\* define raises AttributeError there, which leaves the try statement.
Catch(e) ==
    IF "BotStopException" \notin BaseDefines THEN "propagate"
    ELSE IF e = "BotStopException" THEN "break"
    ELSE IF "BotBalanceException" \notin BaseDefines THEN "propagate"
    ELSE IF e = "BotBalanceException" THEN "break"
    ELSE IF "BotNetworkException" \notin BaseDefines THEN "propagate"
    ELSE IF e = "BotNetworkException" THEN "continue"
    ELSE "break"

\* _run_bot line 83, the first statement of the worker thread
RunBotEnter(b) ==
    /\ pc[b] = "start"
    /\ running' = [running EXCEPT ![b] = TRUE]
    /\ pc' = [pc EXCEPT ![b] = "new"]
    /\ UNCHANGED <<libVars, start_names, bots, live, mainPc, id>>
    /\ UNCHANGED <<flagVars, exc, hooked, storeVars, pollVars, waitVars, stopVars>>

\* The keyword arguments _run_bot hands to the class, lines 116-121.
init_args == {"endpoint", "username", "password", "waiter"}

\* The parameters AbstractBot.__init__ requires.
InitParams ==
    {"endpoint", "directory", "username", "password", "resources", "waiter"}

\* The configured class either inherits __init__ (as every bot of
\* ibots.bots does) or overrides it and supplies what init_args lacks.
Classes == {"inherits", "overrides"}

\* What the login of lines 55-62 does: it answers with an account id, it
\* answers with no account id, or the request or its decoding raises.
Logins == {"id", "noid", "raise"}

\* cls(**init_args): a call that lacks a required parameter raises
\* TypeError before the body runs. Otherwise the login decides; with no
\* account id AbstractBot.__init__ logs an error and returns (lines 63-65),
\* and AbstractBasicBot.__init__ goes on.
Constructor(cls, login) ==
    IF cls = "inherits" /\ ~(InitParams \subseteq init_args)
    THEN "raise"
    ELSE login

\* _run_bot lines 86-88: bot = cls(**init_args); bots[name] = bot. The
\* constructor (AbstractBot.__init__, AbstractBasicBot.__init__) either
\* raises or yields a bot with lowered flags and its state loaded.
Construct(b, cls, login) ==
    /\ pc[b] = "new"
    /\ LET how == Constructor(cls, login)
       IN  IF how # "raise"
           THEN /\ bots' = [bots EXCEPT ![b] = TRUE]
                /\ id' = [id EXCEPT ![b] = (how = "id")]
                /\ _stop' = [_stop EXCEPT ![b] = FALSE]
                /\ _interact' = [_interact EXCEPT ![b] = FALSE]
                /\ state' = [state EXCEPT ![b] = InitState(file[b])]
                /\ file' = [file EXCEPT ![b] = InitFile(file[b])]
                /\ _state_string' = [_state_string EXCEPT ![b] = InitStateString(file[b])]
                /\ saves' = [saves EXCEPT ![b] = 0]
                /\ wrote' = [wrote EXCEPT ![b] = FALSE]
                /\ pc' = [pc EXCEPT ![b] = "run"]
                /\ UNCHANGED exc
           ELSE /\ exc' = [exc EXCEPT ![b] = "Exception"]
                /\ pc' = [pc EXCEPT ![b] = "raised"]
                /\ UNCHANGED <<bots, id, flagVars, storeVars>>
    /\ UNCHANGED <<libVars, start_names, running, live, mainPc, hooked, pollVars, waitVars, stopVars>>

\* Bot logic inside run: self.state[...] = ...
Mutate(b, s) ==
    /\ pc[b] = "run"
    /\ s # state[b]
    /\ state' = [state EXCEPT ![b] = s]
    /\ saves' = [saves EXCEPT ![b] = 0]
    /\ wrote' = [wrote EXCEPT ![b] = FALSE]
    /\ UNCHANGED <<file, _state_string>>
    /\ UNCHANGED <<ctlVars, flagVars, pc, exc, hooked, pollVars, waitVars, stopVars>>

\* AbstractBasicBot.save_state, called by the bot logic
SaveState(b) ==
    /\ pc[b] = "run"
    /\ file' = [file EXCEPT ![b] = SaveFile(file[b], state[b], _state_string[b])]
    /\ _state_string' = [_state_string EXCEPT
                            ![b] = SaveStateString(state[b], _state_string[b])]
    /\ wrote' = [wrote EXCEPT ![b] = SaveChanged(state[b], _state_string[b])]
    /\ saves' = [saves EXCEPT ![b] = IF saves[b] < 2 THEN saves[b] + 1 ELSE 2]
    /\ UNCHANGED state
    /\ UNCHANGED <<ctlVars, flagVars, pc, exc, hooked, pollVars, waitVars, stopVars>>

\* api_wait lines 107-108: the first wait slice, self._waiter.wait(timeout=1).
\* Waiter.wait reads self._event, which does not exist before the poll
\* thread has run line 25 (AttributeError).
ApiWait(b, timeout) ==
    /\ pc[b] = "run"
    /\ IF WaitEvent(NoEvent) = NoEvent
       THEN /\ exc' = [exc EXCEPT ![b] = "AttributeError"]
            /\ pc' = [pc EXCEPT ![b] = "raised"]
            /\ UNCHANGED waitVars
       ELSE /\ ev' = [ev EXCEPT ![b] = WaitEvent(NoEvent)]
            /\ first' = [first EXCEPT ![b] = WaitEvent(NoEvent)]
            /\ seen' = [seen EXCEPT ![b] = 0]
            /\ missed' = [missed EXCEPT ![b] = FALSE]
            /\ tmo' = [tmo EXCEPT ![b] = timeout]
            /\ embedded' = [embedded EXCEPT ![b] = FALSE]
            /\ pc' = [pc EXCEPT ![b] = "wait"]
            /\ UNCHANGED exc
    /\ UNCHANGED <<ctlVars, flagVars, hooked, storeVars, pollVars, stopVars>>

\* Waiter.wait lines 40-43 and api_wait line 109: the slice ends, with True
\* when the signal is set and with False after one second otherwise, and the
\* loop condition is evaluated.
WaitWake(b) ==
    /\ pc[b] = "wait"
    /\ LET result == EventWait(ev[b])
           cond == WhileCond(result, tmo[b])
       IN  /\ seen' = [seen EXCEPT ![b] = IF cond = "raise" THEN 0
                                          ELSE IF result THEN seen[b] + 1 ELSE seen[b]]
           /\ pc' = [pc EXCEPT ![b] = CASE cond = "exit" -> "ret"
                                        [] cond = "enter" -> "loop"
                                        [] OTHER -> "raised"]
           /\ exc' = [exc EXCEPT ![b] = IF cond = "raise" THEN "AttributeError" ELSE @]
           /\ ev' = [ev EXCEPT ![b] = IF cond = "raise" THEN NoEvent ELSE @]
           /\ first' = [first EXCEPT ![b] = IF cond = "raise" THEN NoEvent ELSE @]
           /\ missed' = [missed EXCEPT ![b] = IF cond = "raise" THEN FALSE ELSE @]
           /\ tmo' = [tmo EXCEPT ![b] = IF cond = "raise" THEN None ELSE @]
           /\ embedded' = [embedded EXCEPT ![b] = IF cond = "raise" THEN FALSE ELSE @]
    /\ UNCHANGED <<ctlVars, flagVars, hooked, storeVars, pollVars, stopVars>>

\* api_wait lines 110-118, the loop body: the stop flag, then the interact
\* flag (IPython.embed() in this thread), then the next slice on the same
\* signal.
LoopBody(b) ==
    /\ pc[b] = "loop"
    /\ IF _stop[b]
       THEN /\ hooked' = [hooked EXCEPT ![b] = TRUE]
            /\ file' = [file EXCEPT ![b] = StopHook(file[b], state[b], _state_string[b])]
            /\ exc' = [exc EXCEPT ![b] = "StopBotException"]
            /\ pc' = [pc EXCEPT ![b] = "raised"]
            /\ ev' = [ev EXCEPT ![b] = NoEvent]
            /\ first' = [first EXCEPT ![b] = NoEvent]
            /\ missed' = [missed EXCEPT ![b] = FALSE]
            /\ tmo' = [tmo EXCEPT ![b] = None]
            /\ embedded' = [embedded EXCEPT ![b] = FALSE]
            /\ UNCHANGED <<_interact, seen>>
       ELSE /\ embedded' = [embedded EXCEPT ![b] = @ \/ _interact[b]]
            /\ _interact' = [_interact EXCEPT ![b] = FALSE]
            /\ ev' = [ev EXCEPT ![b] = WaitEvent(ev[b])]
            /\ pc' = [pc EXCEPT ![b] = "wait"]
            /\ UNCHANGED <<hooked, file, exc, first, seen, missed, tmo>>
    /\ UNCHANGED <<ctlVars, _stop, state, _state_string, saves, wrote, pollVars, stopVars>>

\* api_wait returns None to the bot logic; its locals are gone.
ApiWaitReturn(b) ==
    /\ pc[b] = "ret"
    /\ pc' = [pc EXCEPT ![b] = "run"]
    /\ ev' = [ev EXCEPT ![b] = NoEvent]
    /\ first' = [first EXCEPT ![b] = NoEvent]
    /\ seen' = [seen EXCEPT ![b] = 0]
    /\ missed' = [missed EXCEPT ![b] = FALSE]
    /\ tmo' = [tmo EXCEPT ![b] = None]
    /\ embedded' = [embedded EXCEPT ![b] = FALSE]
    /\ UNCHANGED <<ctlVars, flagVars, exc, hooked, storeVars, pollVars, stopVars>>

\* The bot logic as it would be if a raised stop flag ended it outside
\* api_wait.
RunStopped(b) ==
    /\ pc[b] = "run"
    /\ exc' = [exc EXCEPT ![b] = IF _stop[b] THEN "StopBotException" ELSE "Exception"]
    /\ pc' = [pc EXCEPT ![b] = "raised"]
    /\ UNCHANGED <<ctlVars, flagVars, hooked, storeVars, pollVars, waitVars, stopVars>>

\* The bot logic raises an exception of its own (a failed remote call, a
\* KeyError, ...).
RunRaise(b) ==
    /\ pc[b] = "run"
    /\ exc' = [exc EXCEPT ![b] = "Exception"]
    /\ pc' = [pc EXCEPT ![b] = "raised"]
    /\ UNCHANGED <<ctlVars, flagVars, hooked, storeVars, pollVars, waitVars, stopVars>>

\* run returns: _run_bot line 89 falls through to the while True of line 84
\* and constructs the bot again.
RunReturn(b) ==
    /\ pc[b] = "run"
    /\ pc' = [pc EXCEPT ![b] = "new"]
    /\ UNCHANGED <<ctlVars, flagVars, exc, hooked, storeVars, pollVars, waitVars, stopVars>>

\* _run_bot lines 90-107: the exception reaches the except clauses.
RunBotExcept(b) ==
    /\ pc[b] = "raised"
    /\ LET how == Catch(exc[b])
       IN  /\ pc' = [pc EXCEPT ![b] = CASE how = "break" -> "done"
                                        [] how = "continue" -> "new"
                                        [] OTHER -> "dead"]
           /\ running' = [running EXCEPT ![b] = IF how = "break" THEN FALSE ELSE @]
           /\ live' = [live EXCEPT ![b] = IF how = "continue" THEN @ ELSE @ - 1]
    /\ UNCHANGED <<libVars, start_names, bots, mainPc, id>>
    /\ UNCHANGED <<flagVars, exc, hooked, storeVars, pollVars, waitVars, stopVars>>

\* --------------------------------------------------------- control plane
\* The interact route as it would be if it raised every bot's flag.
InteractAll(b) ==
    /\ mainPc # "exit"
    /\ bots[b]
    /\ ~_interact[b]
    /\ _interact' = [x \in Config |-> TRUE]
    /\ UNCHANGED <<ctlVars, _stop, pc, exc, hooked, storeVars, pollVars, waitVars, stopVars>>

\* The interact route, lines 211-214: bots[target]._interact = True
Interact(b) ==
    /\ mainPc # "exit"
    /\ bots[b]
    /\ ~_interact[b]
    /\ _interact' = [_interact EXCEPT ![b] = TRUE]
    /\ UNCHANGED <<ctlVars, _stop, pc, exc, hooked, storeVars, pollVars, waitVars, stopVars>>

\* stop(names): defaults to the running bots, asserts that every target is
\* running, raises each target's stop flag, then polls the running flags.
StopCall(names) ==
    /\ mainPc # "exit"
    /\ stopPc # "polling"
    /\ LET targets == IF names = {} THEN {x \in Config : running[x]} ELSE names
       IN  /\ \A x \in targets : running[x] /\ bots[x]
           /\ _stop' = [x \in Config |-> _stop[x] \/ x \in targets]
           /\ target_set' = targets
    /\ stopPc' = "polling"
    /\ UNCHANGED <<ctlVars, _interact, pc, exc, hooked, storeVars, pollVars, waitVars>>

\* stop: the polling loop ends once no target is running, and the call returns.
StopReturn ==
    /\ mainPc # "exit"
    /\ stopPc = "polling"
    /\ \A x \in target_set : ~running[x]
    /\ stopPc' = "returned"
    /\ UNCHANGED target_set
    /\ UNCHANGED <<ctlVars, flagVars, pc, exc, hooked, storeVars, pollVars, waitVars>>

\* start(names): defaults to the configured bots that are not running,
\* asserts that no target is running, and launches one worker per target.
\* The running flag is the one _run_bot sets in line 83, in the worker.
StartCall(names) ==
    /\ mainPc # "exit"
    /\ LET targets == IF names = {} THEN {x \in Config : ~running[x]} ELSE names
       IN  /\ targets # {}
           /\ \A x \in targets : ~running[x] /\ live[x] < MaxLive
           /\ live' = [x \in Config |-> IF x \in targets THEN live[x] + 1 ELSE live[x]]
           /\ pc' = [x \in Config |->
                        IF x \in targets /\ live[x] = 0 THEN "start" ELSE pc[x]]
           /\ exc' = [x \in Config |->
                        IF x \in targets /\ live[x] = 0 THEN "none" ELSE exc[x]]
           /\ hooked' = [x \in Config |->
                        IF x \in targets /\ live[x] = 0 THEN FALSE ELSE hooked[x]]
    /\ UNCHANGED <<libVars, start_names, running, bots, mainPc, id>>
    /\ UNCHANGED <<flagVars, storeVars, pollVars, waitVars, stopVars>>

\* start() lines 134-137: the calling thread joins every worker it has
\* launched, logs and calls exit(); the process ends, and with it the
\* daemon threads. The routes of lines 139-214 and app.run (line 216) come
\* after the exit() and are never reached.
MainJoin ==
    /\ mainPc = "join"
    /\ \A x \in start_names : pc[x] \in {"dead", "done"}
    /\ mainPc' = "exit"
    /\ UNCHANGED <<libVars, start_names, running, bots, live, id>>
    /\ UNCHANGED <<flagVars, pc, exc, hooked, storeVars, pollVars, waitVars, stopVars>>

\* ------------------------------------------------------------- hello bot
\* HelloBot.run lines 12-17: without 'post_ibid' in its state the bot
\* creates its post, keeps the handle (here the number of the post) and
\* calls save_state.
HelloPost(b, answer) ==
    /\ b = "hello"
    /\ pc[b] = "run"
    /\ \A kv \in state[b] : kv[1] # "post_ibid"
    /\ posts < MaxVal
    /\ IF CreateOp("create_post", <<"7">>, answer).raised = "none"
       THEN LET st == state[b] \cup {<<"post_ibid", posts + 1>>}
            IN  /\ posts' = posts + 1
                /\ state' = [state EXCEPT ![b] = st]
                /\ file' = [file EXCEPT ![b] = SaveFile(file[b], st, _state_string[b])]
                /\ _state_string' = [_state_string EXCEPT
                                        ![b] = SaveStateString(st, _state_string[b])]
                /\ wrote' = [wrote EXCEPT ![b] = SaveChanged(st, _state_string[b])]
                /\ saves' = [saves EXCEPT ![b] = 1]
                /\ UNCHANGED <<pc, exc>>
       ELSE /\ exc' = [exc EXCEPT ![b] = "Exception"]
            /\ pc' = [pc EXCEPT ![b] = "raised"]
            /\ UNCHANGED <<posts, storeVars>>
    /\ UNCHANGED <<start_names, running, bots, live, mainPc, id, call>>
    /\ UNCHANGED <<flagVars, hooked, pollVars, waitVars, stopVars>>

\* server.py main, lines 264-277: the operator runs the server again after
\* the process has ended. Nothing but the state files and the remote
\* endpoint outlives the process.
Rerun ==
    /\ mainPc = "exit"
    /\ mainPc' = "join"
    /\ running' = [b \in Config |-> FALSE]
    /\ bots' = [b \in Config |-> FALSE]
    /\ live' = [b \in Config |-> IF b \in start_names THEN 1 ELSE 0]
    /\ id' = [b \in Config |-> FALSE]
    /\ _stop' = [b \in Config |-> FALSE]
    /\ _interact' = [b \in Config |-> FALSE]
    /\ pc' = [b \in Config |-> IF b \in start_names THEN "start" ELSE "idle"]
    /\ exc' = [b \in Config |-> "none"]
    /\ hooked' = [b \in Config |-> FALSE]
    /\ state' = [b \in Config |-> {}]
    /\ _state_string' = [b \in Config |-> Dumps({}, 2)]
    /\ saves' = [b \in Config |-> 0]
    /\ wrote' = [b \in Config |-> FALSE]
    /\ _event' = NoEvent
    /\ set_events' = {}
    /\ latest' = 0
    /\ response' = NoResponse
    /\ pollPc' = "init"
    /\ ev' = [b \in Config |-> NoEvent]
    /\ first' = [b \in Config |-> NoEvent]
    /\ seen' = [b \in Config |-> 0]
    /\ missed' = [b \in Config |-> FALSE]
    /\ tmo' = [b \in Config |-> None]
    /\ embedded' = [b \in Config |-> FALSE]
    /\ stopPc' = "idle"
    /\ target_set' = {}
    /\ UNCHANGED <<start_names, file, posts, call>>

\* ---------------------------------------------------------- library calls
\* One call of a library function on arguments of the caller's choice; the
\* call and its outcome are kept in call. The functions keep nothing from
\* one call to the next, so each run holds one call.
CallRoundTrip ==
    /\ call.op = "none"
    /\ \E r \in RawIds, t \in EntityTypes :
          call' = [op |-> "round_trip", id |-> r, type |-> t,
                      out |-> _parse_bid(_make_bid(StrVal(r), StrVal(<<t>>)))]
    /\ UNCHANGED <<engineVars, posts>>

CallTargetOp ==
    /\ call.op = "none"
    /\ \E fn \in TargetOps, target \in Values, answer \in Answers :
          call' = [op |-> fn, arg |-> target, answer |-> answer,
                      out |-> TargetOp(fn, target, answer)]
    /\ UNCHANGED <<engineVars, posts>>

CallCreateOp ==
    /\ call.op = "none"
    /\ \E fn \in CreateOps, raw \in RawIds, answer \in Answers :
          call' = [op |-> fn, raw |-> raw, answer |-> answer,
                      types |-> {CreateType(fn)},
                      out |-> CreateOp(fn, raw, answer)]
    /\ UNCHANGED <<engineVars, posts>>

CallQueryList ==
    /\ call.op = "none"
    /\ \E names \in SUBSET VarNames, answer \in Answers :
          call' = [op |-> "_query_list", names |-> names, answer |-> answer,
                      out |-> QueryList(names, answer)]
    /\ UNCHANGED <<engineVars, posts>>

CallStatus ==
    /\ call.op = "none"
    /\ \E answer \in Answers :
          call' = [op |-> "_status", answer |-> answer, out |-> _status(answer)]
    /\ UNCHANGED <<engineVars, posts>>

CallEntryType ==
    /\ call.op = "none"
    /\ \E node \in Nodes :
          call' = [op |-> "_entry_type", node |-> node, out |-> _entry_type(node.entries)]
    /\ UNCHANGED <<engineVars, posts>>

CallCleanResult ==
    /\ call.op = "none"
    /\ \E t \in DeclaredTypes, node \in Nodes :
          call' = [op |-> "_clean_result", t |-> t, node |-> node,
                      types |-> {x[3] : x \in {y \in _clean_result(t, node).items : y[2] = "bid"}},
                      out |-> _clean_result(t, node)]
    /\ UNCHANGED <<engineVars, posts>>

\* AbstractBasicBot.__init__ lines 296-300, for every configured bot
CallBasicStore ==
    /\ call.op = "none"
    /\ \E classes \in [Config -> ClassNames], dirs \in [Config -> Directories] :
          call' = [op |-> "_basic_store", classes |-> classes, dirs |-> dirs,
                      out |-> [b \in Config |-> _basic_store(dirs[b], classes[b])]]
    /\ UNCHANGED <<engineVars, posts>>

\* AbstractBasicBot.__init__ line 295: self.bid = self._make_bid(self.id, 'bot')
CallOwnBid ==
    /\ call.op = "none"
    /\ \E id_ \in {StrVal(<<"7">>), NoneVal} :
          call' = [op |-> "__init__", types |-> {"bot"},
                      out |-> _make_bid(id_, StrVal(<<"bot">>))]
    /\ UNCHANGED <<engineVars, posts>>

\* ------------------------------------------------------------------ spec
\* start() lines 62-80 and 110-129, and the thread start of lines 76-77:
\* the poll thread and one worker per start name are launched; nothing has
\* run yet.
InitWith(names, files) ==
    /\ start_names = names
    /\ running = [b \in Config |-> FALSE]
    /\ bots = [b \in Config |-> FALSE]
    /\ live = [b \in Config |-> IF b \in names THEN 1 ELSE 0]
    /\ mainPc = "join"
    /\ posts = 0
    /\ call = [op |-> "none"]
    /\ id = [b \in Config |-> FALSE]
    /\ _stop = [b \in Config |-> FALSE]
    /\ _interact = [b \in Config |-> FALSE]
    /\ pc = [b \in Config |-> IF b \in names THEN "start" ELSE "idle"]
    /\ exc = [b \in Config |-> "none"]
    /\ hooked = [b \in Config |-> FALSE]
    /\ state = [b \in Config |-> {}]
    /\ file \in {f \in [Config -> files] : \A b \in Config \ names : f[b] = NoFile}
    /\ _state_string = [b \in Config |-> Dumps({}, 2)]
    /\ saves = [b \in Config |-> 0]
    /\ wrote = [b \in Config |-> FALSE]
    /\ _event = NoEvent
    /\ set_events = {}
    /\ latest = 0
    /\ response = NoResponse
    /\ pollPc = "init"
    /\ ev = [b \in Config |-> NoEvent]
    /\ first = [b \in Config |-> NoEvent]
    /\ seen = [b \in Config |-> 0]
    /\ missed = [b \in Config |-> FALSE]
    /\ tmo = [b \in Config |-> None]
    /\ embedded = [b \in Config |-> FALSE]
    /\ stopPc = "idle"
    /\ target_set = {}

\* Every non-empty choice of start names, on a fresh deployment (no state
\* file yet).
Init == \E names \in SUBSET Config \ {{}} : InitWith(names, {NoFile})

\* One worker, started on any state file an earlier run may have left.
InitStore ==
    InitWith({"hello"}, {NoFile} \cup {Dumps(s, 2) : s \in StateSpace})

Poll ==
    \/ PollInit
    \/ \E text \in Responses : PollGet(text)
    \/ PollSet
    \/ PollReplace

Worker(b) ==
    \/ RunBotEnter(b)
    \/ \E cls \in Classes, login \in Logins \ {"noid"} : Construct(b, cls, login)
    \/ \E timeout \in Timeouts : ApiWait(b, timeout)
    \/ WaitWake(b)
    \/ LoopBody(b)
    \/ ApiWaitReturn(b)
    \/ RunRaise(b)
    \/ RunReturn(b)
    \/ RunBotExcept(b)

Logic(b) ==
    \/ \E s \in StateSpace : Mutate(b, s)
    \/ SaveState(b)

Control ==
    \/ \E b \in Config : Interact(b)
    \/ \E names \in SUBSET Config : StopCall(names)
    \/ StopReturn

\* The coordination of the poll thread, the workers and the control plane.
\* The bot logic's own state mutations and saves touch none of the variables
\* the coordination reads, and are left to NextStore.
Next ==
    \/ Poll
    \/ \E b \in Config : Worker(b)
    \/ Control
    \/ MainJoin

\* The same, with logins that give no account id.
NextLogin ==
    \/ Next
    \/ \E b \in Config, cls \in Classes : Construct(b, cls, "noid")

\* The worker of the hello bot: HelloBot.run loops for ever, so it ends by
\* an exception only.
HelloWorker ==
    \/ RunBotEnter("hello")
    \/ \E cls \in Classes, login \in Logins \ {"noid"} : Construct("hello", cls, login)
    \/ \E answer \in Answers : HelloPost("hello", answer)
    \/ \E timeout \in Timeouts : ApiWait("hello", timeout)
    \/ WaitWake("hello")
    \/ LoopBody("hello")
    \/ ApiWaitReturn("hello")
    \/ RunRaise("hello")
    \/ RunBotExcept("hello")

\* The hello bot over several runs of the server.
NextHello ==
    \/ Poll
    \/ HelloWorker
    \/ MainJoin
    \/ Rerun

\* The library functions of AbstractBasicBot, called on their own.
NextLib ==
    \/ CallRoundTrip
    \/ CallTargetOp
    \/ CallCreateOp
    \/ CallQueryList
    \/ CallStatus
    \/ CallEntryType
    \/ CallCleanResult
    \/ CallOwnBid
    \/ CallBasicStore

\* The same, with the start operation of the control plane.
NextStart ==
    \/ Next
    \/ \E names \in SUBSET Config : StartCall(names)

\* The same, with the bot logic mutating and saving its state.
NextStore ==
    \/ Next
    \/ \E b \in Config : Logic(b)

Fairness ==
    /\ WF_vars(Poll)
    /\ \A b \in Config : WF_vars(Worker(b))
    /\ WF_vars(StopReturn)

Spec == Init /\ [][Next]_vars

\* One worker on a fresh deployment.
InitOne == InitWith({"hello"}, {NoFile})

LoginSpec == InitOne /\ [][NextLogin]_vars

StartSpec == InitOne /\ [][NextStart]_vars

HelloSpec == InitOne /\ [][NextHello]_vars

LibSpec == InitOne /\ [][NextLib]_vars

StoreSpec == InitStore /\ [][NextStore]_vars

\* Every configured bot started, on a fresh deployment.
InitAll == InitWith(Config, {NoFile})

\* The threads of start() on their own: no request reaches the control plane.
NextThreads ==
    \/ Poll
    \/ \E b \in Config : Worker(b)
    \/ MainJoin

\* All workers under fair scheduling, with interact requests only.
FairAllSpec == InitAll /\ [][NextThreads \/ \E b \in Config : Interact(b)]_vars /\ Fairness

\* Every thread that can take a step eventually takes one. What the remote
\* endpoint answers and what the operator asks for stay free.
FairSpec == InitStore /\ [][Next]_vars /\ Fairness

\* ---------------------------------------------------------------- claims
InApiWait(b) == pc[b] \in {"wait", "loop"}

\* C1: with the stop flag raised, the only way a worker leaves api_wait is by
\* running stop_hook and raising StopBotException; it never returns normally
\* and never raises anything else, whether or not the signal was triggered in
\* the slice.
C1_StopEndsEveryWake ==
    [][\A b \in Config :
          (InApiWait(b) /\ _stop[b] /\ ~InApiWait(b)')
              => (pc'[b] = "raised" /\ exc'[b] = "StopBotException" /\ hooked'[b])]_vars

\* C2: a worker that has ended, by the cooperative stop signal or by any
\* other exception, is not marked running.
C2_EndedNotRunning ==
    \A b \in Config : pc[b] \in {"dead", "done"} => ~running[b]

\* C3: once the stop flag is raised while the worker is inside api_wait, the
\* worker eventually runs stop_hook and raises StopBotException.
C3_StopEventuallyObserved ==
    \A b \in Config :
        (_stop[b] /\ InApiWait(b)) ~> (hooked[b] /\ exc[b] = "StopBotException")

\* C4: a stop call whose targets are all blocked in api_wait (called without
\* a timeout) eventually returns, with no target marked running.
C4_StopReturns ==
    (/\ stopPc = "polling"
     /\ target_set # {}
     /\ \A x \in target_set : InApiWait(x) /\ tmo[x] = None /\ _stop[x])
        ~> (stopPc = "returned" /\ \A x \in target_set : ~running[x])

\* C5: after a cooperative stop (stop flag observed in api_wait, stop_hook
\* run, StopBotException raised) the state file holds the serialization of
\* the in-memory state.
C5_StoppedStateOnDisk ==
    \A b \in Config :
        (hooked[b] /\ exc[b] = "StopBotException")
            => (file[b] # NoFile /\ Loads(file[b]) = state[b])

\* C6: after a call to save_state, and until the state is mutated again, the
\* state file decodes to the in-memory state.
C6_SavedStateOnDisk ==
    \A b \in Config :
        saves[b] >= 1 => (file[b] # NoFile /\ Loads(file[b]) = state[b])

\* C7: the second of two save_state calls with no state mutation between
\* them writes nothing.
C7_SecondSaveWritesNothing ==
    \A b \in Config : saves[b] = 2 => ~wrote[b]

\* C8: a worker that holds the signal it captured blocks on that very signal
\* again, so a trigger that came while it was not blocked is delivered; and
\* however often the signal has been triggered and replaced meanwhile, the
\* call sees one indication, with which it returns.
C8_TriggerSeenExactlyOnce ==
    \A b \in Config :
        /\ (pc[b] = "wait" /\ first[b] \in set_events) => EventWait(ev[b])
        /\ seen[b] <= 1
        /\ pc[b] = "ret" => (seen[b] = 1 /\ first[b] \in set_events)

\* The captured signal was triggered while the worker was between two slices
\* and has been replaced twice since; the worker has its one indication.
C8_Witness ==
    \E b \in Config :
        /\ pc[b] = "ret"
        /\ missed[b]
        /\ seen[b] = 1
        /\ _event >= first[b] + 2

\* C9: a worker that calls Waiter.wait without a captured reference never
\* picks up a signal that has already been triggered.
C9_FreshSignalUntriggered ==
    [][\A b \in Config :
          (pc[b] = "run" /\ pc'[b] = "wait") => ev'[b] \notin set_events']_vars

\* C10: api_wait called without a timeout returns only with the signal it
\* waited on triggered; after a slice that timed out with the stop flag
\* down, the interact flag raised or not, the worker is still in api_wait.
C10_ReturnOnlyOnTrigger ==
    /\ [](\A b \in Config :
            (pc[b] = "ret" /\ tmo[b] = None) => (ev[b] \in set_events /\ seen[b] = 1))
    /\ [][\A b \in Config :
            (pc[b] = "loop" /\ tmo[b] = None /\ ~_stop[b]) => InApiWait(b)']_vars

\* api_wait without a timeout has returned on a trigger, after a slice that
\* timed out and after an interactive session.
C10_Witness ==
    \E b \in Config :
        /\ pc[b] = "ret"
        /\ tmo[b] = None
        /\ embedded[b]
        /\ ev[b] \in set_events

\* C11: api_wait called with a positive timeout, with neither flag raised,
\* does not raise: a slice of it ends in the next slice or in a normal
\* return.
C11_TimeoutDoesNotRaise ==
    [][\A b \in Config :
          (InApiWait(b) /\ tmo[b] # None /\ ~_stop[b] /\ ~_interact[b])
              => pc'[b] # "raised"]_vars

\* C12: with the interact flag raised and the stop flag down, a worker in
\* api_wait does not raise, returns only on a triggered signal, and the flag
\* is cleared only by the session the worker has opened.
C12_InteractKeepsWaiting ==
    [][\A b \in Config :
          (InApiWait(b) /\ _interact[b] /\ ~_stop[b])
              => /\ pc'[b] # "raised"
                 /\ pc'[b] = "ret" => EventWait(ev[b])
                 /\ ~_interact'[b] => (embedded'[b] /\ pc'[b] = "wait")]_vars

\* C13: once construction or run has raised anything but the cooperative
\* stop signal, the worker constructs and runs nothing again.
C13_NoAutomaticRetry ==
    [][\A b \in Config :
          (pc[b] \in {"raised", "dead"} /\ exc[b] # "StopBotException")
              => (pc'[b] \in {"raised", "dead"} /\ bots'[b] = bots[b])]_vars

\* run has raised an exception of its own and the worker has ended.
C13_Witness ==
    \E b \in Config :
        pc[b] = "dead" /\ bots[b] /\ exc[b] \in {"Exception", "AttributeError"}

\* C15: no name ever has two live workers.
C15_OneWorkerPerName ==
    \A b \in Config : live[b] <= 1

\* C16: started with no names, every worker that has ended had brought its
\* bot to running with a constructed Bot Runtime.
C16_AllConstructed ==
    start_names = Config =>
        \A b \in Config : pc[b] \in {"dead", "done"} => bots[b]

\* C17: a bot that was stopped cooperatively can be started again.
C17_StoppedBotRestarts ==
    \A b \in Config :
        (pc[b] = "dead" /\ exc[b] = "StopBotException" /\ mainPc # "exit")
            => ENABLED StartCall({b})

\* C18: while a worker is running, the controller serves the control plane
\* (the thread that called start() is in app.run, position "serve").
C18_ServesWhileRunning ==
    (\E b \in Config : running[b] /\ live[b] > 0) => mainPc = "serve"

\* C14: run is never under way on a bot whose login gave no account id.
C14_NoRunWithoutId ==
    \A b \in Config : pc[b] \in {"run", "wait", "loop", "ret"} => id[b]

\* C19: a step that raises a bot's interact flag changes no other interact
\* flag, no stop flag and no running flag, and opens no session; a session
\* is opened only by the step of the bot's own worker that finds the flag
\* raised in its api_wait loop.
C19_InteractRaisesOneFlag ==
    [][/\ \A b \in Config :
            (~_interact[b] /\ _interact'[b])
                => /\ \A c \in Config \ {b} : _interact'[c] = _interact[c]
                   /\ _stop' = _stop
                   /\ running' = running
                   /\ embedded' = embedded
       /\ \A b \in Config :
            (~embedded[b] /\ embedded'[b])
                => (pc[b] = "loop" /\ _interact[b] /\ pc'[b] = "wait")]_vars

\* One bot's worker has opened the session it was asked for, while the other
\* bot is blocked in api_wait with its flags down and no session opened.
C19_Witness ==
    \E b \in Config : \E c \in Config \ {b} :
        /\ embedded[b] /\ ~_interact[b]
        /\ pc[c] = "wait" /\ ~_interact[c] /\ ~_stop[c] /\ ~embedded[c]

\* C20: a worker blocked in api_wait on a signal that has been triggered,
\* with neither flag raised, eventually returns from api_wait; this holds
\* for every worker blocked on that signal.
C20_TriggerWakesAll ==
    \A b \in Config :
        (pc[b] = "wait" /\ ev[b] \in set_events /\ ~_stop[b] /\ ~_interact[b])
            ~> (pc[b] = "ret")

\* Both workers return from api_wait on one and the same triggered signal.
C20_Witness ==
    /\ \A b \in Config : pc[b] = "ret" /\ ~_stop[b] /\ ~_interact[b]
    /\ \A b, c \in Config : ev[b] = ev[c]

\* C21: over all runs of the server the hello bot has created at most one
\* post.
C21_OnePostInTotal ==
    posts <= 1

\* C22: parsing the handle made of a raw id and an entity type gives back
\* that raw id and that entity type, also for a raw id that holds ":".
C22_RoundTrip ==
    call.op = "round_trip" =>
        call.out = [raised |-> "none", id |-> call.id, type |-> <<call.type>>]

\* C23: a value that is no handle, passed where an operation takes a handle,
\* makes the operation fail on the handle check, and nothing is sent.
C23_MalformedHandleRejected ==
    (call.op \in TargetOps /\ ~_is_bid(call.arg)) =>
        (call.out.raised = "AssertionError" /\ ~call.out.sent)

\* The entity types the descriptors, the create operations and the
\* constructor hand to _make_bid.
ProducedTypes ==
    IF call.op \in {"_clean_result", "__init__"} \cup CreateOps THEN call.types ELSE {}

\* C24, as claimed: every handle the system produces has an entity type of
\* the closed set.
C24_TypesInClosedSet ==
    ProducedTypes \subseteq EntityTypes

\* C24, amended: every handle the system produces has one of the entity
\* types human, bot, nonprofit, donation, transaction, news, event, post,
\* comment.
C24_TypesProduced ==
    ProducedTypes \subseteq {"human", "bot", "nonprofit"} \cup EntryFields

\* A node of a person who is no bot has been cleaned, and its handle is typed
\* human.
C24_Witness ==
    call.op = "_clean_result" /\ call.out.raised = "none" /\ "human" \in call.types

\* C25: for a node with an entry field that is not null, _entry_type gives
\* the first such field of the fixed order; with donation and comment both
\* not null it gives donation.
C25_FirstEntryField ==
    (call.op = "_entry_type" /\ call.node.entries # {}) =>
        /\ call.out \in call.node.entries
        /\ \E i \in 1 .. Len(EntryOrder) :
              /\ EntryOrder[i] = call.out
              /\ \A j \in 1 .. i - 1 : EntryOrder[j] \notin call.node.entries
        /\ {"donation", "comment"} \subseteq call.node.entries => call.out = "donation"

\* A node with donation and comment both not null has been resolved.
C25_Witness ==
    /\ call.op = "_entry_type"
    /\ {"donation", "comment"} \subseteq call.node.entries
    /\ call.out = "donation"

\* C26: a list operation given a variable name the operation does not
\* declare raises the unsupported-variable condition, and nothing is sent.
C26_UndeclaredVariableRejected ==
    (call.op = "_query_list" /\ ~(call.names \subseteq Declared)) =>
        (call.out.raised = "UnsupportedVariable" /\ ~call.out.sent)

\* C27: a like or follow operation on a handle raises nothing, and returns
\* true exactly when the remote endpoint answered without errors.
C27_LikeFollowReturnsBoolean ==
    (call.op \in LikeOps /\ _is_bid(call.arg)) =>
        (call.out.raised = "none" /\ call.out.ret = (call.answer = "data"))

\* C28: a create operation the endpoint has answered returns a handle, made
\* of the scalar of the three-level result and the operation's entity type
\* (stated for raw ids without ":").
C28_CreateReturnsHandle ==
    (call.op \in CreateOps /\ call.answer = "data" /\ Len(Split(call.raw)) = 1) =>
        /\ _is_bid(call.out.ret)
        /\ _parse_bid(call.out.ret).id = call.raw
        /\ _parse_bid(call.out.ret).type = <<CreateType(call.op)>>

\* C29: no item of a cleaned node holds a nested object of the node: each
\* is a handle or a field whose value is no dict.
C29_NoNestedObject ==
    call.op = "_clean_result" =>
        \A item \in call.out.items : item[2] # "dict"

\* A node with nested objects (its user, its parent, a person, an entry
\* field) has been cleaned into handles and plain fields.
C29_Witness ==
    /\ call.op = "_clean_result"
    /\ call.node.person # "null" /\ call.node.entries # {}
    /\ \E item \in call.out.items : item[2] = "bid"
    /\ \E item \in call.out.items : item[2] # "bid"

\* C30: _status gives the connected line (with identity and balance) exactly
\* when the transport answers the probe.
C30_ConnectedWhenAnswered ==
    call.op = "_status" =>
        (("API Connection: connected" \in call.out) <=> (call.answer = "data"))

\* C31: the step that constructs a bot leaves its state file in place,
\* decoding to the in-memory state: the state is the content of the file
\* that was there, left as it was, or the empty mapping, written to a new
\* file.
C31_ConstructedStateOnDisk ==
    [][\A b \in Config :
          (pc[b] = "new" /\ pc'[b] = "run")
              => /\ file'[b] # NoFile
                 /\ Loads(file'[b]) = state'[b]
                 /\ file[b] # NoFile => (state'[b] = Loads(file[b]) /\ file'[b] = file[b])
                 /\ file[b] = NoFile => (state'[b] = {} /\ file'[b] = Dumps({}, 2))]_vars

\* A bot has been constructed on the file an earlier run left: the file is
\* as it was and the state is its content.
C31_Witness ==
    \E b \in Config :
        /\ pc[b] = "run" /\ bots[b]
        /\ saves[b] = 0 /\ state[b] # {}
        /\ file[b] = Dumps(state[b], 2)

\* C32: the state file of a bot is written by the worker of that bot and by
\* no one else, and no two configured bots have the same state file path.
C32_OwnWorkerOnly ==
    call.op = "_basic_store" =>
        /\ \A b \in Config : Writers(call.out[b], call.out) = {b}
        /\ \A b, c \in Config : b # c => call.out[b] # call.out[c]

\* C33: the step that raises a bot's stop flag changes nothing of its
\* worker; with the flag raised, stop_hook runs and StopBotException is
\* raised only by the check of the api_wait loop, and a worker that is
\* elsewhere is marked running before and after each step it takes outside
\* the except clauses.
C33_StopOnlyAtCheck ==
    /\ [](\A b \in Config :
            (_stop[b] /\ pc[b] \in {"run", "wait", "loop", "ret"}) => running[b])
    /\ [][\A b \in Config :
            /\ (~_stop[b] /\ _stop'[b])
                  => /\ pc'[b] = pc[b] /\ exc'[b] = exc[b] /\ hooked'[b] = hooked[b]
                     /\ running'[b] = running[b] /\ live'[b] = live[b]
            /\ (_stop[b] /\ pc[b] # "loop")
                  => /\ hooked'[b] = hooked[b]
                     /\ exc'[b] = "StopBotException" => exc[b] = "StopBotException"
            /\ (_stop[b] /\ pc[b] \in {"run", "wait", "ret"})
                  => (running'[b] /\ live'[b] = live[b])]_vars

\* A stop call is waiting for a bot whose flag it has raised, and the bot's
\* worker is in its logic, outside api_wait, marked running.
C33_Witness ==
    \E b \in Config :
        /\ stopPc = "polling" /\ b \in target_set
        /\ _stop[b] /\ pc[b] = "run" /\ running[b] /\ ~hooked[b]

\* C34: the step in which a worker calls Waiter.wait (the first slice of
\* api_wait) is taken with a current signal in the Waiter.
C34_SignalBeforeWait ==
    [][\A b \in Config :
          (/\ pc[b] = "run"
           /\ \/ pc'[b] = "wait"
              \/ pc'[b] = "raised" /\ exc'[b] = "AttributeError")
              => _event # NoEvent]_vars

\* C35: a poll goes on to trigger the signal only if there was a poll before
\* it and its response differs from the response of that poll.
C35_TriggerOnlyOnChange ==
    [][(pollPc = "get" /\ pollPc' = "set")
          => (response # NoResponse /\ response' # response)]_vars

\* C36: the handle _clean_result binds under bid for a node of an entry
\* type has that entity type.
C36_BidTypedAsDeclared ==
    (call.op = "_clean_result" /\ call.t \in EntryFields /\ call.out.raised = "none") =>
        \A item \in call.out.items :
            (item[1] = "bid" /\ item[2] = "bid") => item[3] = call.t

====
